---------------------------- MODULE Spec2Model ----------------------------
(* Model of the aggregated-trade store (src/src/aggtrades_store.py), the   *)
(* download orchestrator (src/main.py) and the bar aggregator              *)
(* (src/get_net_taker_volume.py).                                          *)
(*                                                                         *)
(* A DataFrame is a sequence of rows.  Time is counted in ticks; a UTC     *)
(* calendar day is DayLen consecutive ticks, so DateOf(t) = t \div DayLen. *)
EXTENDS Integers, Sequences, FiniteSets, TLC

-----------------------------------------------------------------------------
(* Bounds and domains of the model *)

\* longest DataFrame handed to one write_trades call
MaxLen == 2

\* the trade ids, the calendar days and the times of day
TradeIds == {1, 2}
Dates == {0, 1}
Ticks == {0, 1}

DayLen == Cardinality(Ticks)
Times == 0..(Cardinality(Dates) * DayLen - 1)
\* a read may end exactly at the midnight that closes the last day
ReadTimes == 0..(Cardinality(Dates) * DayLen)

MarketTypes == {"spot", "futures"}
Symbols == {"BTCUSDT", "ETHUSDT"}

\* a trade row: only the columns the store itself looks at
Rows == [trade_id : TradeIds, timestamp : Times]

\* all DataFrames of at most n rows over the row set S
Frames(S, n) == UNION {[1..k -> S] : k \in 0..n}

\* what a path holds in place of a DataFrame: no file at all, or a parquet
\* file that write_table has opened and not yet finished
NoFile == <<[file |-> "missing"]>>
Partial == <<[file |-> "partial"]>>
\* a file that is there and that read_parquet cannot read
Corrupt == <<[file |-> "corrupt"]>>
NoStats == [file |-> "missing"]
NoRet == [pending |-> FALSE]

-----------------------------------------------------------------------------
(* DataFrame helpers *)

\* timestamp.dt.date
DateOf(t) == t \div DayLen

\* time-of-day is 00:00:00
IsMidnight(t) == t % DayLen = 0

ids(df) == {df[i].trade_id : i \in DOMAIN df}

SetMin(S) == CHOOSE x \in S : \A y \in S : x <= y
SetMax(S) == CHOOSE x \in S : \A y \in S : x >= y

RemoveAt(s, i) == SubSeq(s, 1, i - 1) \o SubSeq(s, i + 1, Len(s))

\* number of occurrences of row r in df
Count(df, r) == Cardinality({i \in DOMAIN df : df[i] = r})

UniqueIds(df) == \A i, j \in DOMAIN df : df[i].trade_id = df[j].trade_id => i = j

Ascending(df) == \A i, j \in DOMAIN df : i < j => df[i].timestamp <= df[j].timestamp

\* the rows of df dated d, in df's order: one group of groupby(timestamp.dt.date)
day_df(df, d) == SelectSeq(df, LAMBDA r : DateOf(r.timestamp) = d)

\* the group keys of groupby(timestamp.dt.date)
GroupDates(df) == {DateOf(df[i].timestamp) : i \in DOMAIN df}

\* the elements of a set of integers as an ascending sequence
RECURSIVE SortedSeq(_)
SortedSeq(S) ==
    IF S = {} THEN <<>>
    ELSE LET m == SetMin(S) IN <<m>> \o SortedSeq(S \ {m})

\* faulty variant of drop_duplicates: no row is dropped
drop_duplicates_none(df) == df

\* drop_duplicates(subset=["trade_id"]): the first row of each trade_id stays
drop_duplicates(df) ==
    LET keep == {i \in DOMAIN df :
                    \A j \in 1..(i - 1) : df[j].trade_id # df[i].trade_id}
        idx == SortedSeq(keep)
    IN  [k \in DOMAIN idx |-> df[idx[k]]]

\* sort_values("timestamp"): every ascending arrangement of the rows (the
\* default sort is not stable, so rows of equal timestamp may come out in
\* any order)
RECURSIVE sort_values(_)
sort_values(df) ==
    IF df = <<>> THEN {<<>>}
    ELSE LET m == SetMin({df[i].timestamp : i \in DOMAIN df})
         IN  UNION {{<<df[i]>> \o s : s \in sort_values(RemoveAt(df, i))} :
                        i \in {j \in DOMAIN df : df[j].timestamp = m}}


-----------------------------------------------------------------------------
(* The store: AggTradesStore *)

VARIABLES
    files,      \* partition path -> rows of the parquet file, or NoFile
    stats,      \* stats path -> the persisted stats record, or NoStats
    ret,        \* the value the last read_trades call returned, or NoRet
    hist,       \* the write_trades calls made so far, where a run logs them
    wr,         \* writer -> the write_trades call it is in, step by step
    base,       \* the store as the first of the concurrent calls found it
    dl,         \* the download command: its arguments, futures and errors
    agg,        \* the aggregator: its input and what it returned
    net         \* the fetcher: the requests of the call under way

storeVars == <<files, stats>>
callVars == <<ret, hist>>
concVars == <<wr, base>>
vars == <<files, stats, ret, hist, wr, base, dl, agg, net>>

\* faulty variant of _get_path_components: the day is left out of the name
_get_path_components_noday(market_type, symbol, date) == <<market_type, symbol, 0>>

\* faulty variant of _get_path_components: the market type is left out of
\* the directory
_get_path_components_nomarket(market_type, symbol, date) == <<"spot", symbol, date>>

\* base_dir / market_type / symbol / year / month / symbol_YYYYMMDD.parquet
_get_path_components(market_type, symbol, date) == <<market_type, symbol, date>>

Paths == {_get_path_components(m, s, d) : m \in MarketTypes, s \in Symbols, d \in Dates}

\* stats_dir / f"{file_path.stem}_stats.json": the stem is symbol_YYYYMMDD
stats_path(file_path) == <<file_path[2], file_path[3]>>

StatsPaths == {stats_path(p) : p \in Paths}

exists(fs, file_path) == file_path \in DOMAIN fs /\ fs[file_path] # NoFile

\* the stats record computed from a DataFrame (last_modified left out)
FileStats(df) ==
    [min_timestamp |-> SetMin({df[i].timestamp : i \in DOMAIN df}),
     max_timestamp |-> SetMax({df[i].timestamp : i \in DOMAIN df}),
     min_trade_id  |-> SetMin(ids(df)),
     max_trade_id  |-> SetMax(ids(df)),
     num_trades    |-> Len(df)]

_update_file_stats(st, file_path, df) ==
    [st EXCEPT ![stats_path(file_path)] = FileStats(df)]

\* pd.concat([existing_df, day_df]).drop_duplicates(...).sort_values(...)
combined_df(existing_df, day) == sort_values(drop_duplicates(existing_df \o day))

\* faulty variant of WriteGroup: an existing partition is merged into even
\* when overwrite is set
WriteGroupMerging(s, market_type, symbol, df, overwrite, date) ==
    LET file_path == _get_path_components(market_type, symbol, date)
        day == day_df(df, date)
    IN  IF exists(s.files, file_path)
        THEN {[files |-> [s.files EXCEPT ![file_path] = c],
               stats |-> _update_file_stats(s.stats, file_path, c)] :
                  c \in combined_df(s.files[file_path], day)}
        ELSE {[files |-> [s.files EXCEPT ![file_path] = day],
               stats |-> _update_file_stats(s.stats, file_path, day)]}

\* one pass of the loop body of write_trades, for the group dated date: the
\* set of store states it can leave
WriteGroup(s, market_type, symbol, df, overwrite, date) ==
    LET file_path == _get_path_components(market_type, symbol, date)
        day == day_df(df, date)
    IN  IF exists(s.files, file_path) /\ ~overwrite
        THEN {[files |-> [s.files EXCEPT ![file_path] = c],
               stats |-> _update_file_stats(s.stats, file_path, c)] :
                  c \in combined_df(s.files[file_path], day)}
        ELSE {[files |-> [s.files EXCEPT ![file_path] = day],
               stats |-> _update_file_stats(s.stats, file_path, day)]}

\* the loop of write_trades over the date groups, in ascending date order
RECURSIVE WriteDates(_, _, _, _, _, _)
WriteDates(S, market_type, symbol, df, overwrite, ds) ==
    IF ds = <<>> THEN S
    ELSE WriteDates(
             UNION {WriteGroup(s, market_type, symbol, df, overwrite, Head(ds)) : s \in S},
             market_type, symbol, df, overwrite, Tail(ds))

\* write_trades: the set of store states a call can leave
write_trades(s, market_type, symbol, trades_df, overwrite) ==
    IF trades_df = <<>> THEN {s}
    ELSE WriteDates({s}, market_type, symbol, trades_df, overwrite,
                    SortedSeq(GroupDates(trades_df)))

\* pd.read_parquet(file_path) raises: the file is gone, unfinished or damaged
read_parquet_raises(fs, file_path) == fs[file_path] \in {NoFile, Partial, Corrupt}

\* faulty variant of read_end_date: the end day is never included
read_end_date_exclusive(end_time) == DateOf(end_time)

\* end_date of read_trades: the end day is included when end_time has a
\* time of day
read_end_date(end_time) ==
    IF IsMidnight(end_time) THEN DateOf(end_time) ELSE DateOf(end_time) + 1

\* faulty variant of ReadDates: the loop is left at the first date that has
\* no file
RECURSIVE ReadDatesStopping(_, _, _, _, _, _, _)
ReadDatesStopping(fs, market_type, symbol, current_date, end_date, start_time, end_time) ==
    IF ~(current_date < end_date) THEN <<>>
    ELSE LET file_path == _get_path_components(market_type, symbol, current_date)
         IN  IF ~exists(fs, file_path) THEN <<>>
             ELSE SelectSeq(fs[file_path],
                      LAMBDA r : r.timestamp >= start_time /\ r.timestamp < end_time)
                  \o ReadDatesStopping(fs, market_type, symbol, current_date + 1,
                                       end_date, start_time, end_time)

\* the while loop of read_trades from current_date on
RECURSIVE ReadDates(_, _, _, _, _, _, _)
ReadDates(fs, market_type, symbol, current_date, end_date, start_time, end_time) ==
    IF ~(current_date < end_date) THEN <<>>
    ELSE LET file_path == _get_path_components(market_type, symbol, current_date)
             df == IF exists(fs, file_path)
                   THEN SelectSeq(fs[file_path],
                            LAMBDA r : r.timestamp >= start_time /\ r.timestamp < end_time)
                   ELSE <<>>
         IN  df \o ReadDates(fs, market_type, symbol, current_date + 1, end_date,
                             start_time, end_time)

read_trades(fs, market_type, symbol, start_time, end_time) ==
    ReadDates(fs, market_type, symbol, DateOf(start_time), read_end_date(end_time),
              start_time, end_time)

\* read_trades raises: a file it found there cannot be read
read_trades_raises(fs, market_type, symbol, start_time, end_time) ==
    \E d \in DateOf(start_time)..(read_end_date(end_time) - 1) :
        LET file_path == _get_path_components(market_type, symbol, d)
        IN  exists(fs, file_path) /\ read_parquet_raises(fs, file_path)

-----------------------------------------------------------------------------
(* Spec: any sequence of whole write_trades and read_trades calls on one    *)
(* symbol of one market                                                    *)

StoreInit ==
    /\ files = [p \in Paths |-> NoFile]
    /\ stats = [p \in StatsPaths |-> NoStats]
    /\ ret = NoRet
    /\ hist = <<>>

Writers == {1, 2}

IdleWriter ==
    [pc |-> "idle", df |-> <<>>, overwrite |-> FALSE, dates |-> <<>>,
     table |-> <<>>, before |-> <<>>]

ConcInit ==
    /\ wr = [w \in Writers |-> IdleWriter]
    /\ base = [files |-> files, stats |-> stats]

DlIdle == [pc |-> "idle", fut |-> <<>>]
AggIdle == [pc |-> "idle"]
NetIdle == [pc |-> "idle"]

Init ==
    /\ StoreInit
    /\ ConcInit
    /\ dl = DlIdle
    /\ agg = AggIdle
    /\ net = NetIdle

Write(market_type, symbol, trades_df, overwrite) ==
    /\ ~ret.pending
    /\ \E s \in write_trades([files |-> files, stats |-> stats],
                              market_type, symbol, trades_df, overwrite) :
           /\ files' = s.files
           /\ stats' = s.stats
    /\ UNCHANGED <<ret, hist, wr, base, dl, agg, net>>

Read(market_type, symbol, start_time, end_time) ==
    /\ ~ret.pending
    /\ ret' = [pending |-> TRUE, market_type |-> market_type, symbol |-> symbol,
               start_time |-> start_time, end_time |-> end_time,
               raised |-> read_trades_raises(files, market_type, symbol,
                                             start_time, end_time),
               rows |-> read_trades(files, market_type, symbol, start_time, end_time)]
    /\ UNCHANGED <<files, stats, hist, wr, base, dl, agg, net>>

\* the caller takes the DataFrame read_trades returned
Return ==
    /\ ret.pending
    /\ ret' = NoRet
    /\ UNCHANGED <<files, stats, hist, wr, base, dl, agg, net>>

\* the one symbol the runs of Spec and SpecLog work on
StoreMarket == "spot"
StoreSymbol == "BTCUSDT"

\* the DataFrames of one day's trades, as a fetcher hands them over
DayFrames(n) == UNION {Frames({r \in Rows : DateOf(r.timestamp) = d}, n) : d \in Dates}

Next ==
    \/ \E df \in DayFrames(MaxLen), overwrite \in BOOLEAN :
           Write(StoreMarket, StoreSymbol, df, overwrite)
    \/ \E t0, t1 \in ReadTimes : Read(StoreMarket, StoreSymbol, t0, t1)
    \/ Return

Spec == Init /\ [][Next]_vars

-----------------------------------------------------------------------------
(* SpecLog: two write_trades calls on an empty store, each logged with its *)
(* arguments and the files it found                                        *)

WriteA(trades_df, overwrite) ==
    /\ hist = <<>>
    /\ \E s \in write_trades([files |-> files, stats |-> stats],
                              StoreMarket, StoreSymbol, trades_df, overwrite) :
           /\ files' = s.files
           /\ stats' = s.stats
    /\ hist' = <<[df |-> trades_df, overwrite |-> overwrite, before |-> files]>>
    /\ UNCHANGED <<ret, wr, base, dl, agg, net>>

WriteB(trades_df, overwrite) ==
    /\ Len(hist) = 1
    /\ \E s \in write_trades([files |-> files, stats |-> stats],
                              StoreMarket, StoreSymbol, trades_df, overwrite) :
           /\ files' = s.files
           /\ stats' = s.stats
    /\ hist' = Append(hist, [df |-> trades_df, overwrite |-> overwrite, before |-> files])
    /\ UNCHANGED <<ret, wr, base, dl, agg, net>>

NextLog ==
    \/ \E df \in DayFrames(MaxLen), overwrite \in BOOLEAN : WriteA(df, overwrite)
    \/ \E df \in DayFrames(MaxLen), overwrite \in BOOLEAN : WriteB(df, overwrite)

SpecLog == Init /\ [][NextLog]_vars

\* the partition of StoreSymbol for date d
Part(d) == _get_path_components(StoreMarket, StoreSymbol, d)

-----------------------------------------------------------------------------
(* Claims on the store *)

\* C1: after write(A) into an empty partition and then write(B, overwrite =
\* false), A and B both holding rows of date d, the partition of d holds
\* exactly the trade ids of A's and B's rows of that date, each id in one row
\* only, the rows in ascending timestamp order.
MergeIsUnion ==
    (Len(hist) = 2 /\ ~hist[2].overwrite) =>
        \A d \in Dates :
            LET A == day_df(hist[1].df, d)
                B == day_df(hist[2].df, d)
            IN  (A # <<>> /\ B # <<>>) =>
                    /\ exists(files, Part(d))
                    /\ ids(files[Part(d)]) = ids(A) \cup ids(B)
                    /\ UniqueIds(files[Part(d)])
                    /\ Ascending(files[Part(d)])

\* C1 witness: B shares a trade id with A and brings a new one, and A was
\* written out of timestamp order.
MergeIsUnionWitness ==
    /\ Len(hist) = 2
    /\ ~hist[2].overwrite
    /\ \E d \in Dates :
           LET A == day_df(hist[1].df, d)
               B == day_df(hist[2].df, d)
           IN  /\ ids(A) \cap ids(B) # {}
               /\ ids(B) \ ids(A) # {}
               /\ ~Ascending(A)
               /\ Len(files[Part(d)]) = 2

\* number of rows equal to r held in the partitions of a symbol
RECURSIVE HeldCount(_, _, _, _, _)
HeldCount(fs, market_type, symbol, r, ds) ==
    IF ds = {} THEN 0
    ELSE LET d == CHOOSE x \in ds : TRUE
             p == _get_path_components(market_type, symbol, d)
         IN  (IF exists(fs, p) THEN Count(fs[p], r) ELSE 0)
                 + HeldCount(fs, market_type, symbol, r, ds \ {d})

\* C2: a read over [start_time, end_time) returns each row held in the
\* symbol's partitions with start_time <= timestamp < end_time, as many times
\* as it is held, and nothing else.
ReadExact ==
    ret.pending =>
        \A r \in Rows :
            Count(ret.rows, r) =
                IF ret.start_time <= r.timestamp /\ r.timestamp < ret.end_time
                THEN HeldCount(files, ret.market_type, ret.symbol, r, Dates)
                ELSE 0

\* C2 witness: a read that starts and ends inside a day, returns rows of two
\* partitions and leaves out a held row stamped end_time.
ReadExactWitness ==
    /\ ret.pending
    /\ ~IsMidnight(ret.start_time)
    /\ ~IsMidnight(ret.end_time)
    /\ \E i, j \in DOMAIN ret.rows :
           DateOf(ret.rows[i].timestamp) # DateOf(ret.rows[j].timestamp)
    /\ \E r \in Rows :
           /\ r.timestamp = ret.end_time
           /\ HeldCount(files, ret.market_type, ret.symbol, r, Dates) > 0

\* C3: a write with overwrite = true leaves, in every partition that existed
\* and that it has a group for, exactly the new group; writing the same
\* DataFrame twice with overwrite = true leaves what writing it once left.
OverwriteReplaces ==
    (Len(hist) = 2 /\ hist[2].overwrite) =>
        /\ \A d \in GroupDates(hist[2].df) :
               exists(hist[2].before, Part(d)) =>
                   files[Part(d)] = day_df(hist[2].df, d)
        /\ (hist[1].overwrite /\ hist[1].df = hist[2].df) => files = hist[2].before

\* C3 witness: the overwrite found a partition holding a row that the new
\* group does not have.
OverwriteReplacesWitness ==
    /\ Len(hist) = 2
    /\ hist[2].overwrite
    /\ \E d \in GroupDates(hist[2].df) :
           /\ exists(hist[2].before, Part(d))
           /\ \E i \in DOMAIN hist[2].before[Part(d)] :
                  Count(day_df(hist[2].df, d), hist[2].before[Part(d)][i]) = 0

\* C4: every partition file holds rows unique by trade_id and in ascending
\* timestamp order.
PartitionsUniqueSorted ==
    \A p \in Paths :
        exists(files, p) => UniqueIds(files[p]) /\ Ascending(files[p])

\* C13: after a write with overwrite = false into a partition that exists,
\* the row kept for a trade id held both by the partition and by the new
\* group is the new group's row.
MergeLastWins ==
    (Len(hist) = 2 /\ ~hist[2].overwrite) =>
        \A d \in Dates :
            LET existing_df == hist[2].before[Part(d)]
                B == day_df(hist[2].df, d)
            IN  (exists(hist[2].before, Part(d)) /\ B # <<>>) =>
                    \A i \in DOMAIN files[Part(d)] :
                        files[Part(d)][i].trade_id \in ids(existing_df) \cap ids(B)
                            => \E j \in DOMAIN B : B[j] = files[Part(d)][i]

\* the dates a read over [start_time, end_time) walks
ReadRange == DateOf(ret.start_time)..(read_end_date(ret.end_time) - 1)

\* the partition the last read looked at for date d
ReadPart(d) == _get_path_components(ret.market_type, ret.symbol, d)

\* C11: a read over dates of which some or all have no partition does not
\* raise; it returns, in date order, the rows in [start_time, end_time) of the
\* partitions that exist, and no row when none exists.
ReadSkipsMissing ==
    (ret.pending /\ \E d \in ReadRange : ~exists(files, ReadPart(d))) =>
        /\ ~ret.raised
        /\ \A d \in ReadRange :
               LET got == day_df(ret.rows, d)
               IN  IF exists(files, ReadPart(d))
                   THEN got = SelectSeq(files[ReadPart(d)],
                                  LAMBDA r : /\ ret.start_time <= r.timestamp
                                             /\ r.timestamp < ret.end_time)
                   ELSE got = <<>>
        /\ \A i \in DOMAIN ret.rows : DateOf(ret.rows[i].timestamp) \in ReadRange
        /\ (\A d \in ReadRange : ~exists(files, ReadPart(d))) => ret.rows = <<>>

\* C11 witness: the read walked a date without a partition and then a date
\* whose partition gave it rows.
ReadSkipsMissingWitness ==
    /\ ret.pending
    /\ \E d, e \in ReadRange :
           /\ d < e
           /\ ~exists(files, ReadPart(d))
           /\ exists(files, ReadPart(e))
           /\ day_df(ret.rows, e) # <<>>

\* C12: whatever writes made the store, the rows a read returns are in
\* ascending timestamp order over the whole result.
ReadAscending == ret.pending => Ascending(ret.rows)

-----------------------------------------------------------------------------
(* SpecConc: write_trades step by step.  A few first writes fill the store, *)
(* then two calls for the same symbol and different dates run interleaved.  *)

\* longest DataFrame of a concurrent call
MaxConcLen == 1

\* the DataFrames of the first writes that fill the store: one row each
SeedFrames == {<<r>> : r \in {x \in Rows : x.trade_id = 1}}

\* the date D1 of the first call and the date D2 of the second
CallDate == <<0, 1>>

Started(w) == wr[w].pc # "idle"

\* the partition of the group a writer is working on
CurrentPath(w) == Part(Head(wr[w].dates))

\* a whole first write into a missing partition, before the concurrent calls
Seed(trades_df) ==
    /\ \A w \in Writers : ~Started(w)
    /\ \A d \in GroupDates(trades_df) : ~exists(files, Part(d))
    /\ \E s \in write_trades([files |-> files, stats |-> stats],
                              StoreMarket, StoreSymbol, trades_df, FALSE) :
           /\ files' = s.files
           /\ stats' = s.stats
           /\ base' = s
    /\ UNCHANGED <<ret, hist, wr, dl, agg, net>>

\* write_trades is entered: the empty check and the groupby
Call(w, trades_df, overwrite) ==
    /\ ~Started(w)
    /\ GroupDates(trades_df) \subseteq {CallDate[w]}
    /\ wr' = [wr EXCEPT ![w] =
                 [pc |-> IF trades_df = <<>> THEN "done" ELSE "exists",
                  df |-> trades_df, overwrite |-> overwrite,
                  dates |-> SortedSeq(GroupDates(trades_df)),
                  table |-> <<>>,
                  before |-> [d \in Dates |-> files[Part(d)]]]]
    /\ UNCHANGED <<files, stats, ret, hist, base, dl, agg, net>>

\* table = from_pandas(day_df); file_path.exists() and the overwrite branch
CheckExists(w) ==
    /\ wr[w].pc = "exists"
    /\ wr' = [wr EXCEPT ![w].table = day_df(wr[w].df, Head(wr[w].dates)),
                        ![w].pc = IF exists(files, CurrentPath(w))
                                  THEN IF wr[w].overwrite THEN "unlink" ELSE "read"
                                  ELSE "open"]
    /\ UNCHANGED <<files, stats, ret, hist, base, dl, agg, net>>

\* file_path.unlink()
Unlink(w) ==
    /\ wr[w].pc = "unlink"
    /\ IF exists(files, CurrentPath(w))
       THEN /\ files' = [files EXCEPT ![CurrentPath(w)] = NoFile]
            /\ wr' = [wr EXCEPT ![w].pc = "open"]
       ELSE /\ wr' = [wr EXCEPT ![w].pc = "raised"]
            /\ UNCHANGED files
    /\ UNCHANGED <<stats, ret, hist, base, dl, agg, net>>

\* existing_df = read_parquet(file_path); combined_df and its table
ReadExisting(w) ==
    /\ wr[w].pc = "read"
    /\ IF read_parquet_raises(files, CurrentPath(w))
       THEN wr' = [wr EXCEPT ![w].pc = "raised"]
       ELSE \E c \in combined_df(files[CurrentPath(w)], wr[w].table) :
                wr' = [wr EXCEPT ![w].table = c, ![w].pc = "open"]
    /\ UNCHANGED <<files, stats, ret, hist, base, dl, agg, net>>

\* pq.write_table opens file_path for writing: the file is there, unfinished
OpenFile(w) ==
    /\ wr[w].pc = "open"
    /\ files' = [files EXCEPT ![CurrentPath(w)] = Partial]
    /\ wr' = [wr EXCEPT ![w].pc = "close"]
    /\ UNCHANGED <<stats, ret, hist, base, dl, agg, net>>

\* pq.write_table has written the table and closed the file
CloseFile(w) ==
    /\ wr[w].pc = "close"
    /\ files' = [files EXCEPT ![CurrentPath(w)] = wr[w].table]
    /\ wr' = [wr EXCEPT ![w].pc = "stats"]
    /\ UNCHANGED <<stats, ret, hist, base, dl, agg, net>>

\* _update_file_stats, then the next group or the end of the call
UpdateStats(w) ==
    /\ wr[w].pc = "stats"
    /\ stats' = _update_file_stats(stats, CurrentPath(w), wr[w].table)
    /\ wr' = [wr EXCEPT ![w].dates = Tail(wr[w].dates),
                        ![w].pc = IF Tail(wr[w].dates) = <<>> THEN "done" ELSE "exists"]
    /\ UNCHANGED <<files, ret, hist, base, dl, agg, net>>

NextConc ==
    \/ \E df \in SeedFrames : Seed(df)
    \/ \E w \in Writers, df \in DayFrames(MaxConcLen) \ {<<>>}, overwrite \in BOOLEAN :
           Call(w, df, overwrite)
    \/ \E w \in Writers : CheckExists(w)
    \/ \E w \in Writers : Unlink(w)
    \/ \E w \in Writers : ReadExisting(w)
    \/ \E w \in Writers : OpenFile(w)
    \/ \E w \in Writers : CloseFile(w)
    \/ \E w \in Writers : UpdateStats(w)

SpecConc == Init /\ [][NextConc]_vars

\* the contents a call can leave in the partition of date d, given what the
\* partition held when the call was made
PostContents(w, d) ==
    IF wr[w].before[d] # NoFile /\ ~wr[w].overwrite
    THEN combined_df(wr[w].before[d], day_df(wr[w].df, d))
    ELSE {day_df(wr[w].df, d)}

\* C5: while a write_trades call is under way, every partition it writes is
\* seen either as the call found it or as the call leaves it.
WriteAllOrNothing ==
    \A w \in Writers :
        Started(w) =>
            \A d \in GroupDates(wr[w].df) :
                \/ files[Part(d)] = wr[w].before[d]
                \/ files[Part(d)] \in PostContents(w, d)

\* the stores that the two calls leave when one runs after the other
SequentialOutcomes ==
    LET run(S, w) ==
            UNION {write_trades(s, StoreMarket, StoreSymbol, wr[w].df, wr[w].overwrite) :
                       s \in S}
    IN  run(run({base}, 1), 2) \cup run(run({base}, 2), 1)

\* C7: two concurrent calls for different dates of one symbol never fail on
\* each other, and once both have ended the partitions and the stats records
\* are what the two calls leave when run one after the other.
ConcurrentAsSequential ==
    /\ \A w \in Writers : wr[w].pc # "raised"
    /\ (\A w \in Writers : wr[w].pc = "done") =>
           [files |-> files, stats |-> stats] \in SequentialOutcomes

\* C7 witness: both calls have ended, each found its partition there, and
\* both partitions have changed.
ConcurrentAsSequentialWitness ==
    /\ \A w \in Writers : wr[w].pc = "done"
    /\ \A w \in Writers :
           \A d \in GroupDates(wr[w].df) :
               /\ wr[w].before[d] # NoFile
               /\ files[Part(d)] # base.files[Part(d)]
    /\ \E w \in Writers : ~wr[w].overwrite /\ \E d \in GroupDates(wr[w].df) : Len(files[Part(d)]) = 2

-----------------------------------------------------------------------------
(* SpecCorrupt: one write_trades call, step by step, over several dates on  *)
(* a store in which partitions have been damaged                            *)

\* the file of an existing partition is damaged behind the store's back
Damage(d) ==
    /\ \A w \in Writers : ~Started(w)
    /\ exists(files, Part(d))
    /\ files[Part(d)] # Corrupt
    /\ files' = [files EXCEPT ![Part(d)] = Corrupt]
    /\ UNCHANGED <<stats, ret, hist, wr, base, dl, agg, net>>

\* write_trades is entered with a DataFrame of any dates
CallDates(w, trades_df, overwrite) ==
    /\ \A v \in Writers : ~Started(v)
    /\ wr' = [wr EXCEPT ![w] =
                 [pc |-> IF trades_df = <<>> THEN "done" ELSE "exists",
                  df |-> trades_df, overwrite |-> overwrite,
                  dates |-> SortedSeq(GroupDates(trades_df)),
                  table |-> <<>>,
                  before |-> [d \in Dates |-> files[Part(d)]]]]
    /\ UNCHANGED <<files, stats, ret, hist, base, dl, agg, net>>

NextCorrupt ==
    \/ \E df \in SeedFrames : Seed(df)
    \/ \E d \in Dates : Damage(d)
    \/ \E df \in Frames(Rows, MaxLen) \ {<<>>}, overwrite \in BOOLEAN :
           CallDates(1, df, overwrite)
    \/ CheckExists(1)
    \/ Unlink(1)
    \/ ReadExisting(1)
    \/ OpenFile(1)
    \/ CloseFile(1)
    \/ UpdateStats(1)

SpecCorrupt == Init /\ [][NextCorrupt]_vars

\* C14: a write with overwrite = false that finds the partition of one of
\* its dates unreadable ends in an error, leaves that partition as it was,
\* and still writes the groups of its other dates.
CorruptConfined ==
    \A w \in Writers :
        (/\ wr[w].pc \in {"done", "raised"}
         /\ ~wr[w].overwrite
         /\ \E d \in GroupDates(wr[w].df) : wr[w].before[d] = Corrupt) =>
            /\ wr[w].pc = "raised"
            /\ \A d \in GroupDates(wr[w].df) :
                   IF wr[w].before[d] = Corrupt
                   THEN files[Part(d)] = Corrupt
                   ELSE files[Part(d)] \in PostContents(w, d)

-----------------------------------------------------------------------------
(* SpecMulti: two write_trades calls over any market type and symbol, with  *)
(* DataFrames that span the midnight between two days                       *)

\* the last tick of the first day and the first tick of the second
BoundaryTimes == {DayLen - 1, DayLen}

MultiFrames == Frames({r \in Rows : r.timestamp \in BoundaryTimes}, MaxLen)

WriteFirst(market_type, symbol, trades_df, overwrite) ==
    /\ hist = <<>>
    /\ \E s \in write_trades([files |-> files, stats |-> stats],
                              market_type, symbol, trades_df, overwrite) :
           /\ files' = s.files
           /\ stats' = s.stats
    /\ hist' = <<[market_type |-> market_type, symbol |-> symbol, df |-> trades_df,
                  overwrite |-> overwrite, before |-> files, stats_before |-> stats]>>
    /\ UNCHANGED <<ret, wr, base, dl, agg, net>>

WriteSecond(market_type, symbol, trades_df, overwrite) ==
    /\ Len(hist) = 1
    /\ \E s \in write_trades([files |-> files, stats |-> stats],
                              market_type, symbol, trades_df, overwrite) :
           /\ files' = s.files
           /\ stats' = s.stats
    /\ hist' = Append(hist, [market_type |-> market_type, symbol |-> symbol,
                             df |-> trades_df, overwrite |-> overwrite,
                             before |-> files, stats_before |-> stats])
    /\ UNCHANGED <<ret, wr, base, dl, agg, net>>

NextMulti ==
    \/ /\ hist = <<>>
       /\ \E market_type \in MarketTypes, symbol \in Symbols, df \in MultiFrames,
             overwrite \in BOOLEAN : WriteFirst(market_type, symbol, df, overwrite)
    \/ /\ Len(hist) = 1
       /\ \E market_type \in MarketTypes, symbol \in Symbols, df \in MultiFrames,
             overwrite \in BOOLEAN : WriteSecond(market_type, symbol, df, overwrite)

SpecMulti == Init /\ [][NextMulti]_vars

\* the last write_trades call made
LastWrite == hist[Len(hist)]

\* the partitions the last call has a group for
Written ==
    {p \in DOMAIN files : /\ p[1] = LastWrite.market_type
                          /\ p[2] = LastWrite.symbol
                          /\ p[3] \in GroupDates(LastWrite.df)}

\* C15: a write puts every record into the partition of its own market type,
\* symbol and date, changes no partition of another date, symbol or market
\* type, and with an empty DataFrame changes no file at all.
WriteFrame ==
    hist # <<>> =>
        /\ \A p \in DOMAIN files \ Written : files[p] = LastWrite.before[p]
        /\ \A p \in Written :
               /\ exists(files, p)
               /\ \A i \in DOMAIN files[p] : DateOf(files[p][i].timestamp) = p[3]
               /\ \A i \in DOMAIN LastWrite.df :
                      DateOf(LastWrite.df[i].timestamp) = p[3]
                          => LastWrite.df[i].trade_id \in ids(files[p])
        /\ \A i \in DOMAIN LastWrite.df :
               \E p \in Written : DateOf(LastWrite.df[i].timestamp) = p[3]
        /\ LastWrite.df = <<>> =>
               files = LastWrite.before /\ stats = LastWrite.stats_before

\* C15 witness: the second call wrote both days of a symbol that had a
\* partition in the other market type.
WriteFrameWitness ==
    /\ Len(hist) = 2
    /\ GroupDates(LastWrite.df) = Dates
    /\ \E p \in DOMAIN files \ Written :
           /\ p[1] # LastWrite.market_type
           /\ p[2] = LastWrite.symbol
           /\ exists(files, p)

\* C19: the stats record persisted for a partition file that exists holds
\* the row count and the least and greatest trade id and timestamp of the
\* file's rows.
StatsMatchFiles ==
    \A p \in Paths :
        exists(files, p) => stats[stats_path(p)] = FileStats(files[p])

-----------------------------------------------------------------------------
(* SpecDl: the download command of main.py.  The fetcher is the outside     *)
(* world: a fetch raises, returns no rows, or returns rows of the asked     *)
(* date; a write raises or goes through.                                    *)

\* longest --symbols list
MaxSymbols == 2
\* largest --threads value tried
MaxThreads == 2

\* the symbols.split(",") lists
SymbolLists == UNION {[1..k -> Symbols] : k \in 1..MaxSymbols}

\* faulty variant of symbol_keys: one entry per occurrence of a symbol
symbol_keys_repeated(symbols) == symbols

\* the keys of the dict symbol_tasks, in insertion order: a symbol given
\* twice is one key
symbol_keys(symbols) ==
    LET keep == {i \in DOMAIN symbols :
                    \A j \in 1..(i - 1) : symbols[j] # symbols[i]}
        idx == SortedSeq(keep)
    IN  [k \in DOMAIN idx |-> symbols[idx[k]]]

\* the dates start..end, ascending
RECURSIVE date_list(_, _)
date_list(current_date, end) ==
    IF current_date <= end
    THEN <<current_date>> \o date_list(current_date + 1, end)
    ELSE <<>>

\* the (symbol, date) pairs in the order the futures are submitted
RECURSIVE submitted(_, _)
submitted(keys, dates) ==
    IF keys = <<>> THEN <<>>
    ELSE [i \in DOMAIN dates |-> <<Head(keys), dates[i]>>] \o submitted(Tail(keys), dates)

\* what the fetcher returns for a date when it returns rows
FetchedFrame(date) == <<[trade_id |-> 1, timestamp |-> date * DayLen]>>

NewFuture == [pc |-> "queued", outcome |-> "none", collected |-> FALSE, runs |-> 0]

Futures == IF dl.pc = "idle" THEN {} ELSE DOMAIN dl.fut

Busy == {f \in Futures : dl.fut[f].pc \in {"fetching", "writing"}}

\* faulty variant of process_result: an empty fetch is reported as a failure
process_result_strict(outcome) == outcome = "written"

\* the success flag process_single_day returns
process_result(outcome) == outcome \in {"written", "empty"}

\* the status the process exits with on typer.BadParameter, and on an
\* exception nothing catches; a command that returns exits with 0
BadParameterExit == 2
UncaughtExit == 1

\* download up to the submission of the futures
DownloadStart(symbols, start, end, market_type, threads, override) ==
    /\ dl.pc = "idle"
    /\ dl' = [pc |-> IF end < start \/ market_type # "spot" THEN "raised" ELSE "running",
              symbols |-> symbols, market_type |-> market_type,
              threads |-> threads, override |-> override,
              tasks |-> IF end < start \/ market_type # "spot" THEN <<>>
                        ELSE submitted(symbol_keys(symbols), date_list(start, end)),
              fut |-> IF end < start \/ market_type # "spot" THEN <<>>
                      ELSE [i \in DOMAIN submitted(symbol_keys(symbols), date_list(start, end))
                               |-> NewFuture],
              errors |-> <<>>,
              exit_code |-> IF end < start THEN BadParameterExit
                            ELSE IF market_type # "spot" THEN UncaughtExit
                            ELSE 0]
    /\ UNCHANGED <<files, stats, ret, hist, wr, base, agg, net>>

\* a free worker of the pool takes the oldest queued future
TaskStart(f) ==
    /\ dl.pc = "running"
    /\ dl.fut[f].pc = "queued"
    /\ \A g \in 1..(f - 1) : dl.fut[g].pc # "queued"
    /\ Cardinality(Busy) < dl.threads
    /\ dl' = [dl EXCEPT !.fut[f].pc = "fetching", !.fut[f].runs = @ + 1]
    /\ UNCHANGED <<files, stats, ret, hist, wr, base, agg, net>>

\* fetcher.fetch_daily_trades returns or raises
Fetch(f, got) ==
    /\ dl.pc = "running"
    /\ dl.fut[f].pc = "fetching"
    /\ dl' = [dl EXCEPT !.fut[f].pc = IF got = "rows" THEN "writing" ELSE "finished",
                        !.fut[f].outcome = CASE got = "rows" -> "none"
                                             [] got = "empty" -> "empty"
                                             [] OTHER -> "fetch_raised"]
    /\ UNCHANGED <<files, stats, ret, hist, wr, base, agg, net>>

\* write_trades returns
TaskWrite(f) ==
    /\ dl.pc = "running"
    /\ dl.fut[f].pc = "writing"
    /\ \E s \in write_trades([files |-> files, stats |-> stats], dl.market_type,
                              dl.tasks[f][1], FetchedFrame(dl.tasks[f][2]), dl.override) :
           /\ files' = s.files
           /\ stats' = s.stats
    /\ dl' = [dl EXCEPT !.fut[f].pc = "finished", !.fut[f].outcome = "written"]
    /\ UNCHANGED <<ret, hist, wr, base, agg, net>>

\* write_trades raises
TaskWriteFails(f) ==
    /\ dl.pc = "running"
    /\ dl.fut[f].pc = "writing"
    /\ dl' = [dl EXCEPT !.fut[f].pc = "finished", !.fut[f].outcome = "write_raised"]
    /\ UNCHANGED <<files, stats, ret, hist, wr, base, agg, net>>

\* one turn of the as_completed loop
Collect(f) ==
    /\ dl.pc = "running"
    /\ dl.fut[f].pc = "finished"
    /\ ~dl.fut[f].collected
    /\ dl' = [dl EXCEPT !.fut[f].collected = TRUE,
                        !.errors = IF process_result(dl.fut[f].outcome) THEN @
                                   ELSE Append(@, dl.tasks[f])]
    /\ UNCHANGED <<files, stats, ret, hist, wr, base, agg, net>>

\* the loop and the pool are left and the summary is printed
Report ==
    /\ dl.pc = "running"
    /\ \A f \in Futures : dl.fut[f].collected
    /\ dl' = [dl EXCEPT !.pc = "done"]
    /\ UNCHANGED <<files, stats, ret, hist, wr, base, agg, net>>

\* the steps of a run under way: the pool's workers and the as_completed loop
RunStep ==
    \/ \E f \in Futures : TaskStart(f)
    \/ \E f \in Futures, got \in {"raise", "empty", "rows"} : Fetch(f, got)
    \/ \E f \in Futures : TaskWrite(f)
    \/ \E f \in Futures : TaskWriteFails(f)
    \/ \E f \in Futures : Collect(f)
    \/ Report

NextDl ==
    \/ /\ dl.pc = "idle"
       /\ \E symbols \in SymbolLists, start, end \in Dates, market_type \in MarketTypes,
             threads \in 1..MaxThreads, override \in BOOLEAN :
              DownloadStart(symbols, start, end, market_type, threads, override)
    \/ RunStep

SpecDl == Init /\ [][NextDl]_vars

\* the worker pool runs whatever can run
FairDl == SpecDl /\ WF_vars(NextDl)

\* the partition a future writes
TaskPath(f) == _get_path_components(dl.market_type, dl.tasks[f][1], dl.tasks[f][2])

\* C6: whatever the thread count and the symbol list, no (symbol, date) pair
\* is submitted twice and no two futures are inside write_trades on the same
\* partition at the same time.
NoOverlappingWrites ==
    \A f, g \in Futures :
        f # g =>
            /\ dl.tasks[f] # dl.tasks[g]
            /\ (dl.fut[f].pc = "writing" /\ dl.fut[g].pc = "writing")
                  => TaskPath(f) # TaskPath(g)

\* C6 witness: a symbol was given twice and two futures are writing at once.
NoOverlappingWritesWitness ==
    /\ dl.pc = "running"
    /\ \E i, j \in DOMAIN dl.symbols : i # j /\ dl.symbols[i] = dl.symbols[j]
    /\ \E f, g \in Futures :
           f # g /\ dl.fut[f].pc = "writing" /\ dl.fut[g].pc = "writing"

\* the futures whose task failed: the fetch or the write raised
Failed == {f \in Futures : dl.fut[f].outcome \in {"fetch_raised", "write_raised"}}

\* C10: no failure stops the run: while the command is running some step can
\* always be taken, no future is run twice, and when the command ends every
\* future has run exactly once to its end and the error list holds one entry
\* for each failed task and none for a task that wrote or fetched no rows.
EveryTaskRunsOnce ==
    /\ \A f \in Futures : dl.fut[f].runs <= 1
    /\ dl.pc = "running" => ENABLED RunStep
    /\ dl.pc = "done" =>
           /\ \A f \in Futures : dl.fut[f].runs = 1 /\ dl.fut[f].pc = "finished"
           /\ Len(dl.errors) = Cardinality(Failed)
           /\ \A f \in Futures :
                  Cardinality({i \in DOMAIN dl.errors : dl.errors[i] = dl.tasks[f]})
                      = IF f \in Failed THEN 1 ELSE 0

\* C10 witness: the command has ended after one task failed in its fetch,
\* one in its write, one fetched no rows and one wrote.
EveryTaskRunsOnceWitness ==
    /\ dl.pc = "done"
    /\ \A o \in {"fetch_raised", "write_raised", "empty", "written"} :
           \E f \in Futures : dl.fut[f].outcome = o

\* C16: the download command exits with a non-zero status exactly when no
\* task of the run obtained data, and with zero when at least one task wrote.
ExitCodeTellsData ==
    dl.pc = "done" =>
        (dl.exit_code # 0 <=> \A f \in Futures : dl.fut[f].outcome # "written")

\* every download run ends
DownloadEnds == <>(dl.pc \in {"done", "raised"})

-----------------------------------------------------------------------------
(* SpecAgg: the bar aggregator of get_net_taker_volume.py, applied to one   *)
(* day's trades in timestamp order                                          *)

\* most trades in the day's DataFrame
MaxTrades == 3

\* the times of the day, the prices and the quantities of the trades
AggTimes == {0, 1, 2, 3}
Prices == {1, 2}
Quantities == {1, 2}
\* the resample frequencies, in ticks: each divides the day
Frequencies == {1, 2, 4}

Trades == [timestamp : AggTimes, price : Prices, quantity : Quantities,
           is_buyer_maker : BOOLEAN]

\* the day's DataFrames: at least one trade, in ascending timestamp order
TradeFrames == {df \in Frames(Trades, MaxTrades) : df # <<>> /\ Ascending(df)}

RECURSIVE SumQuantity(_)
SumQuantity(df) ==
    IF df = <<>> THEN 0 ELSE Head(df).quantity + SumQuantity(Tail(df))

\* _resample applied to the rows of one bin; the bin must hold a row, or
\* iloc[0] raises IndexError
_resample(df) ==
    LET taker_buy_volume == SumQuantity(SelectSeq(df, LAMBDA r : ~r.is_buyer_maker))
        taker_sell_volume == SumQuantity(SelectSeq(df, LAMBDA r : r.is_buyer_maker))
    IN  [open |-> df[1].price,
         high |-> SetMax({df[i].price : i \in DOMAIN df}),
         low |-> SetMin({df[i].price : i \in DOMAIN df}),
         close |-> df[Len(df)].price,
         volume |-> SumQuantity(df),
         net_taker_volume |-> taker_buy_volume - taker_sell_volume]

\* the rows of bin k of resample(frequency): closed on the left
Bin(trades, frequency, k) ==
    SelectSeq(trades, LAMBDA r : k * frequency <= r.timestamp
                                    /\ r.timestamp < (k + 1) * frequency)

\* calculate_net_taker_volume: resample makes a bin for every interval from
\* the first trade's to the last trade's, the empty ones too, and applies
\* _resample to each; on an empty bin that raises
calculate_net_taker_volume(trades, frequency) ==
    LET lo == SetMin({trades[i].timestamp : i \in DOMAIN trades}) \div frequency
        hi == SetMax({trades[i].timestamp : i \in DOMAIN trades}) \div frequency
        raised == \E k \in lo..hi : Bin(trades, frequency, k) = <<>>
    IN  [raised |-> raised,
         bars |-> IF raised THEN <<>>
                  ELSE [i \in 1..(hi - lo + 1) |->
                           [bucket_start |-> (lo + i - 1) * frequency,
                            bar |-> _resample(Bin(trades, frequency, lo + i - 1))]]]

\* _process_single_date on the day's DataFrame: an exception is printed and
\* None returned in place of the day's bars
ProcessSingleDate(trades, frequency) ==
    /\ agg.pc = "idle"
    /\ agg' = [pc |-> "done", trades |-> trades, frequency |-> frequency,
               daily_result |-> calculate_net_taker_volume(trades, frequency)]
    /\ UNCHANGED <<files, stats, ret, hist, wr, base, dl, net>>

NextAgg ==
    /\ agg.pc = "idle"
    /\ \E trades \in TradeFrames, frequency \in Frequencies :
           ProcessSingleDate(trades, frequency)

SpecAgg == Init /\ [][NextAgg]_vars

\* the positions of the trades of bucket k
InBucket(k) ==
    {i \in DOMAIN agg.trades :
        /\ k * agg.frequency <= agg.trades[i].timestamp
        /\ agg.trades[i].timestamp < (k + 1) * agg.frequency}

Buckets == 0..(SetMax(AggTimes) \div agg.frequency)

\* the bars returned for the bucket that starts at t
BarsAt(t) ==
    {i \in DOMAIN agg.daily_result.bars : agg.daily_result.bars[i].bucket_start = t}

RECURSIVE SumOver(_, _)
SumOver(I, maker) ==
    IF I = {} THEN 0
    ELSE LET i == CHOOSE x \in I : TRUE
         IN  (IF agg.trades[i].is_buyer_maker = maker THEN agg.trades[i].quantity ELSE 0)
                 + SumOver(I \ {i}, maker)

\* C8: every bucket that holds a trade yields one bar, with the price of its
\* first trade as open, of its last as close, the largest and smallest price
\* as high and low, the summed quantity as volume, and taker buys less taker
\* sells as net_taker_volume; a trade on a boundary is in the bucket that
\* starts there.
BarsCorrect ==
    agg.pc = "done" =>
        \A k \in Buckets :
            InBucket(k) # {} =>
                /\ Cardinality(BarsAt(k * agg.frequency)) = 1
                /\ \A i \in BarsAt(k * agg.frequency) :
                       LET b == agg.daily_result.bars[i].bar
                           I == InBucket(k)
                       IN  /\ b.open = agg.trades[SetMin(I)].price
                           /\ b.close = agg.trades[SetMax(I)].price
                           /\ b.high = SetMax({agg.trades[j].price : j \in I})
                           /\ b.low = SetMin({agg.trades[j].price : j \in I})
                           /\ b.volume = SumOver(I, TRUE) + SumOver(I, FALSE)
                           /\ b.net_taker_volume = SumOver(I, FALSE) - SumOver(I, TRUE)

\* C9: the output has a bar for every bucket that holds a trade and none for
\* a bucket that holds no trade.
BarsForTradedBuckets ==
    agg.pc = "done" =>
        \A k \in Buckets : (InBucket(k) # {}) <=> (BarsAt(k * agg.frequency) # {})

-----------------------------------------------------------------------------
(* SpecRetry: one request of a fetcher under its tenacity @retry decorator  *)

Fetchers == {"historical", "api"}

\* what one requests.get attempt comes to: an answer, HTTP 404 out of
\* raise_for_status, or a network error
Outcomes == {"ok", "not_found", "connection_error", "timeout"}

\* stop=stop_after_attempt(n) of the two decorators
HistoricalStop == 3
ApiStop == 4

stop_after_attempt(fetcher) == IF fetcher = "historical" THEN HistoricalStop ELSE ApiStop

\* the retry= condition: the archive fetcher names the network exceptions,
\* the API fetcher names none, and tenacity then retries on any exception
retry_if(fetcher, outcome) ==
    IF fetcher = "historical"
    THEN outcome \in {"connection_error", "timeout"}
    ELSE outcome # "ok"

\* the decorated function is called
FetchCall(fetcher) ==
    /\ net.pc = "idle"
    /\ net' = [pc |-> "request", fetcher |-> fetcher, log |-> <<>>]
    /\ UNCHANGED <<files, stats, ret, hist, wr, base, dl, agg>>

\* one attempt: the function body runs and returns or raises, and tenacity
\* returns the value, lets the exception through, retries, or gives up
Attempt(outcome) ==
    /\ net.pc = "request"
    /\ net' = [net EXCEPT
                  !.log = Append(@, outcome),
                  !.pc = IF outcome = "ok" THEN "returned"
                         ELSE IF ~retry_if(net.fetcher, outcome) THEN "raised"
                         ELSE IF Len(net.log) + 1 >= stop_after_attempt(net.fetcher)
                              THEN "raised"
                         ELSE "request"]
    /\ UNCHANGED <<files, stats, ret, hist, wr, base, dl, agg>>

NextRetry ==
    \/ \E fetcher \in Fetchers : FetchCall(fetcher)
    \/ \E outcome \in Outcomes : Attempt(outcome)

SpecRetry == Init /\ [][NextRetry]_vars

\* C17: for both fetchers, no attempt follows an attempt that failed with
\* not-found; an attempt that failed with a network error is followed by
\* another until 3 attempts (archive) or 4 (API) were made, and then the call
\* fails; no call makes more attempts than that.
RetryPolicy ==
    net.pc # "idle" =>
        LET most == IF net.fetcher = "historical" THEN 3 ELSE 4
        IN  /\ Len(net.log) <= most
            /\ \A i \in DOMAIN net.log :
                   net.log[i] = "not_found" => i = Len(net.log) /\ net.pc = "raised"
            /\ (net.log # <<>> /\ net.log[Len(net.log)] \in {"connection_error", "timeout"})
                   => net.pc = IF Len(net.log) < most THEN "request" ELSE "raised"

-----------------------------------------------------------------------------
(* SpecPage: the paginated fetch of one hour by the API fetcher.  The       *)
(* server answers a request with the earliest `limit` trades it holds in    *)
(* [startTime, endTime].                                                    *)

\* most trades the server holds around the hour
MaxServerTrades == 3

\* the milliseconds of the hour, and the first millisecond of the next
PageTimes == {0, 1, 2, 3}
\* the limit= values tried
PageLimits == {1, 2}

\* start_ts and end_ts of the hour
HourStart == SetMin(PageTimes)
HourEnd == SetMax(PageTimes)

\* what the server can hold: aggregate trade ids a ascending in time T
ServerTrades ==
    UNION {{[i \in 1..n |-> [a |-> i, T |-> t[i]]] :
               t \in {u \in [1..n -> PageTimes] : \A i, j \in 1..n : i < j => u[i] <= u[j]}} :
           n \in 0..MaxServerTrades}

\* the answer to GET aggTrades with startTime, endTime and limit
response_json(server, start_time, end_time, limit) ==
    LET hit == SelectSeq(server, LAMBDA x : start_time <= x.T /\ x.T <= end_time)
    IN  SubSeq(hit, 1, IF Len(hit) < limit THEN Len(hit) ELSE limit)

\* the DataFrame made of all_trades: columns renamed, sorted by timestamp,
\* cut to the hour
hourly_frame(all_trades) ==
    LET df == [i \in DOMAIN all_trades |->
                  [trade_id |-> all_trades[i].a, timestamp |-> all_trades[i].T]]
    IN  {SelectSeq(sorted, LAMBDA r : r.timestamp >= HourStart /\ r.timestamp < HourEnd) :
             sorted \in sort_values(df)}

\* fetch_hourly_trades is called
HourlyCall(server, limit) ==
    /\ net.pc = "idle"
    /\ net' = [pc |-> "loop", server |-> server, limit |-> limit,
               start_ts |-> HourStart, all_trades |-> <<>>, df |-> <<>>]
    /\ UNCHANGED <<files, stats, ret, hist, wr, base, dl, agg>>

\* one turn of the while loop
Page ==
    /\ net.pc = "loop"
    /\ LET trades == response_json(net.server, net.start_ts, HourEnd, net.limit)
           more == /\ trades # <<>>
                   /\ ~(Len(trades) < net.limit)
                   /\ ~(trades[Len(trades)].T + 1 >= HourEnd)
       IN  net' = [net EXCEPT
                      !.all_trades = @ \o trades,
                      !.start_ts = IF trades # <<>> /\ ~(Len(trades) < net.limit)
                                   THEN trades[Len(trades)].T + 1 ELSE @,
                      !.pc = IF more THEN "loop" ELSE "frame"]
    /\ UNCHANGED <<files, stats, ret, hist, wr, base, dl, agg>>

\* the DataFrame is built and returned
Frame ==
    /\ net.pc = "frame"
    /\ \E df \in hourly_frame(net.all_trades) :
           net' = [net EXCEPT !.df = df, !.pc = "done"]
    /\ UNCHANGED <<files, stats, ret, hist, wr, base, dl, agg>>

NextPage ==
    \/ \E server \in ServerTrades, limit \in PageLimits : HourlyCall(server, limit)
    \/ Page
    \/ Frame

SpecPage == Init /\ [][NextPage]_vars

\* C18: the hourly fetch returns every trade the server holds with a
\* timestamp inside the hour exactly once, and no other trade.
PagesComplete ==
    net.pc = "done" =>
        \A i \in DOMAIN net.server :
            Cardinality({j \in DOMAIN net.df : net.df[j].trade_id = net.server[i].a})
                = IF HourStart <= net.server[i].T /\ net.server[i].T < HourEnd
                  THEN 1 ELSE 0

=============================================================================
